---- MODULE Spec2Model ----
(***************************************************************************)
(* Credit ledger of the tarot backend: the balance-mutation gate           *)
(* (UserService.update_user_balance), the redeem-code claim                *)
(* (RedeemCodeService.validate_and_use_code + the /redeem route), the      *)
(* Google Play purchase verifier (GooglePlayService.verify_purchase), the  *)
(* consume route, the admin adjustment routes and the administration of    *)
(* redeem codes (update_redeem_code, disable_codes, cleanup_expired_codes).*)
(*                                                                         *)
(* Each request is served by a worker with its own SQLAlchemy Session.     *)
(* One step of the model is one SQL statement (or one commit) of a         *)
(* session; statements of different sessions interleave freely.  A SELECT  *)
(* sees the committed rows.  A conditional UPDATE is evaluated against the *)
(* committed row, and the rows a session has flushed but not committed     *)
(* are kept in the session (loc[w].pend) until its commit or rollback.     *)
(* A flushed INSERT holds its unique-index entry: another session          *)
(* inserting the same key waits for the holder to finish.                  *)
(* An ORM flush writes the attributes that were set, by primary key.       *)
(*                                                                         *)
(* Time is the variable now, read by every statement that calls utcnow();  *)
(* it moves in the specifications that include Tick.                       *)
(***************************************************************************)
EXTENDS Integers, Sequences, FiniteSets, TLC

Users   == {"u1", "u2"}
Workers == {"w1", "w2"}
Tokens  == {"t1", "t2"}
Codes   == {"c1"}
NoVal   == "none"

\* bounds of the model
MaxOps == 3
MaxRedeemOps == 4
VoucherCredits == 10
MaxVoucherOps == 4
MaxGateOps == 4
MaxThrottleOps == 3
MaxAccountOps == 4
MaxTime == 2
DayLen == 2

\* program constants
max_retries == 3
DEFAULT_INITIAL_CREDITS == 10
REDEEM_CODE_DAILY_LIMIT_PER_DEVICE == 5

ConsumeAmounts == {7}
AdjustDeltas == {5, -3}

VARIABLES
  users,      \* installation ids that have a committed User row
  totals,     \* User.total_credits_purchased / total_credits_consumed
  balance,    \* committed UserBalance row of each user (version 0: no row)
  txs,        \* committed CreditTransaction rows, in commit order
  purchases,  \* committed Purchase rows
  nextPid,    \* next Purchase.id
  vouchers,   \* committed RedeemCode rows
  prov,       \* consumption state of each receipt at the payment provider
  pc,         \* position of each worker in its current handler
  loc,        \* locals and Session state of each worker
  res,        \* the last response each worker returned
  okRes,      \* history: the first successful verify response per token
  ops,        \* number of requests started
  now         \* datetime.utcnow(), in instants; DayLen instants make a day

vars == <<users, totals, balance, txs, purchases, nextPid, vouchers, prov,
          pc, loc, res, okRes, ops, now>>

---------------------------------------------------------------------------
\* Typed "absent" values

NoRow      == [credits |-> 0, version |-> 0]
NoTotals   == [purchased |-> -1, consumed |-> -1]
NoOid      == [kind |-> NoVal, key |-> NoVal, salt |-> NoVal]
NoPurchase == [id |-> 0, oid |-> NoOid, user |-> NoVal, credits |-> 0,
               status |-> NoVal, token |-> NoVal, platform |-> NoVal]
\* a transaction description that names neither a reason nor an administrator
NoDesc     == [reason |-> NoVal, by |-> NoVal]
NoRes      == [op |-> NoVal, key |-> NoVal, ok |-> FALSE, why |-> NoVal,
               oid |-> NoOid, cr |-> 0, seq |-> FALSE, tries |-> 0,
               had |-> FALSE, reach |-> FALSE]
IdleLoc    == [op |-> NoVal, user |-> NoVal, key |-> NoVal, product |-> NoVal,
               delta |-> 0, rid |-> 0, attempt |-> 0, rc |-> 0, rv |-> 0,
               pend |-> NoPurchase, cache |-> NoTotals, oid |-> NoOid,
               seq |-> FALSE, had |-> FALSE, reach |-> FALSE, rs |-> NoVal,
               want |-> NoVal, desc |-> NoDesc]
\* a NULL DateTime column
NoTime     == -1
\* a RedeemCode row as create_redeem_codes inserts it
NewCode(e) == [status |-> "active", used_by |-> NoVal, used_at |-> NoTime,
               expires_at |-> e]

---------------------------------------------------------------------------
\* Pure helpers

RECURSIVE SumCredits(_)
SumCredits(s) == IF s = <<>> THEN 0 ELSE Head(s).credits + SumCredits(Tail(s))

TxOf(u) == SelectSeq(txs, LAMBDA t : t.user = u)

\* update_user_balance: new_credits = balance.credits + credit_change
NewCredits(c, d) == c + d

InsufficientNever(c, d) == FALSE
InsufficientLax(c, d) == d < 0 /\ c < 0
\* update_user_balance: if credit_change < 0 and new_credits < 0
Insufficient(c, d) == d < 0 /\ NewCredits(c, d) < 0

VersionMatchesAlways(row, v) == row.version # 0
\* the WHERE clause of the conditional UPDATE: user_id = ? AND version = ?
VersionMatches(row, v) == row.version # 0 /\ row.version = v

TxRowAbs(u, ttype, d, after, rtype, rid, key) ==
  [user |-> u, type |-> ttype, credits |-> IF d < 0 THEN -d ELSE d,
   balance_after |-> after, reference_type |-> rtype, reference_id |-> rid,
   key |-> key, description |-> NoDesc]
\* the CreditTransaction row the gate inserts (key: history field, the
\* receipt token or code of the request that caused the row)
TxRow(u, ttype, d, after, rtype, rid, key) ==
  [user |-> u, type |-> ttype, credits |-> d, balance_after |-> after,
   reference_type |-> rtype, reference_id |-> rid, key |-> key,
   description |-> NoDesc]

\* the User running totals after a change of d
BumpTotals(t, d) ==
  IF d > 0 THEN [t EXCEPT !.purchased = @ + d]
  ELSE IF d < 0 THEN [t EXCEPT !.consumed = @ + (-d)]
  ELSE t

\* GooglePlayService._get_credits_for_product
CreditsForProduct(product) ==
  CASE product = "com.mysixth.tarot.credits_5"   -> 5
    [] product = "com.mysixth.tarot.credits_10"  -> 10
    [] product = "com.mysixth.tarot.credits_20"  -> 20
    [] product = "com.mysixth.tarot.credits_50"  -> 50
    [] product = "com.mysixth.tarot.credits_100" -> 100
    [] OTHER -> 1

\* the product each receipt was bought for (t2: one the catalog lacks)
ProductOf(t) == IF t = "t1" THEN "com.mysixth.tarot.credits_5" ELSE "com.mysixth.tarot.bundle"

\* what the provider returns as orderId for a receipt (t2: none)
ProviderOrderId(t) ==
  IF t = "t1" THEN [kind |-> "gpa", key |-> t, salt |-> NoVal] ELSE NoOid

\* order_id = purchase_info.get('orderId') or f"gp_{hash(token) & 0xffffffff:08x}"
\* (hash() of a str is salted per interpreter process, and concurrent
\* requests are served by different worker processes)
HashSalt(w) == w
ResolveOrderId(w, t) ==
  IF ProviderOrderId(t) # NoOid THEN ProviderOrderId(t)
  ELSE [kind |-> "gp", key |-> t, salt |-> HashSalt(w)]

CodeId(c) == CASE c = "c1" -> 1 [] c = "c2" -> 2 [] c = "c3" -> 3
               [] c = "c4" -> 4 [] c = "c5" -> 5 [] c = "c6" -> 6
               [] c = "c7" -> 7 [] OTHER -> 0

TxType(op) == CASE op = "consume" -> "consume"
                [] op = "adjust"  -> "admin_adjust"
                [] OTHER          -> "earn"
RefType(op) == CASE op = "consume" -> "ai_reading"
                 [] op = "adjust"  -> "admin"
                 [] op = "redeem"  -> "redeem_code"
                 [] op = "verify"  -> "purchase"
                 [] OTHER          -> "system"

\* rows flushed by other sessions and not yet committed
PendingElsewhere(w, oid) ==
  \E x \in Workers \ {w} : loc[x].pend # NoPurchase /\ loc[x].pend.oid = oid

---------------------------------------------------------------------------
Init ==
  /\ users = {}
  /\ totals = [u \in Users |-> [purchased |-> 0, consumed |-> 0]]
  /\ balance = [u \in Users |-> NoRow]
  /\ txs = <<>>
  /\ purchases = {}
  /\ nextPid = 1
  /\ vouchers = [c \in Codes |-> NewCode(MaxTime + 1)]
  /\ prov = [t \in Tokens |-> "purchased"]
  /\ pc = [w \in Workers |-> "idle"]
  /\ loc = [w \in Workers |-> IdleLoc]
  /\ res = [w \in Workers |-> NoRes]
  /\ okRes = [t \in Tokens |-> NoRes]
  /\ ops = 0
  /\ now = 0

---------------------------------------------------------------------------
\* Responses

FailRes(w, why) ==
  [op |-> loc[w].op, key |-> loc[w].key, ok |-> FALSE, why |-> why,
   oid |-> NoOid, cr |-> 0, seq |-> loc[w].seq, tries |-> loc[w].attempt + 1,
   had |-> loc[w].had, reach |-> loc[w].reach]

OkRes(w, why, oid, cr) ==
  [op |-> loc[w].op, key |-> loc[w].key, ok |-> TRUE, why |-> why,
   oid |-> oid, cr |-> cr, seq |-> loc[w].seq, tries |-> loc[w].attempt + 1,
   had |-> loc[w].had, reach |-> loc[w].reach]

\* the handler returns r: the Session is closed and the worker is free again
Respond(w, r) ==
  /\ res' = [res EXCEPT ![w] = r]
  /\ okRes' = IF r.op = "verify" /\ r.ok /\ okRes[r.key] = NoRes
              THEN [okRes EXCEPT ![r.key] = r] ELSE okRes
  /\ pc' = [pc EXCEPT ![w] = "idle"]
  /\ loc' = [loc EXCEPT ![w] = IdleLoc]

Begin(w) ==
  /\ pc[w] = "idle"
  /\ ops' = ops + 1

---------------------------------------------------------------------------
\* UserService.register_user

\* POST /register: the existence check of register_user
RegisterStart(w, u) ==
  /\ Begin(w)
  /\ LET l == [IdleLoc EXCEPT !.op = "register", !.user = u, !.key = u] IN
     IF u \in users
     THEN /\ res' = [res EXCEPT ![w] = [NoRes EXCEPT !.op = "register", !.key = u, !.ok = TRUE]]
          /\ UNCHANGED <<pc, loc>>
     ELSE /\ pc' = [pc EXCEPT ![w] = "register"]
          /\ loc' = [loc EXCEPT ![w] = l]
          /\ res' = [res EXCEPT ![w] = NoRes]
  /\ UNCHANGED <<now, users, totals, balance, txs, purchases, nextPid, vouchers,
                 prov, okRes>>

InitialCredits == IF DEFAULT_INITIAL_CREDITS > 0 THEN DEFAULT_INITIAL_CREDITS ELSE 0

\* where a handler goes on after register_user returned the user
AfterRegister(op) == CASE op = "redeem" -> "r_read"
                       [] op = "verify" -> "v_insert"
                       [] OTHER         -> "idle"

\* register_user from its existence check to its commit: User row, UserBalance
\* row (0, version 1) and the signup bonus through update_user_balance, all in
\* one transaction.  raced: another session committed the same
\* installation_id after the existence check, so the INSERT raises.
RegisterUser(w, raced) ==
  /\ pc[w] = "register"
  /\ LET u == loc[w].user
         op == loc[w].op
         c1 == NewCredits(0, InitialCredits)
     IN
     IF u \notin users
     THEN /\ users' = users \cup {u}
          /\ balance' = [balance EXCEPT ![u] =
                           IF InitialCredits > 0
                           THEN [credits |-> c1, version |-> 2]
                           ELSE [credits |-> 0, version |-> 1]]
          /\ txs' = IF InitialCredits > 0
                    THEN Append(txs, TxRow(u, "earn", InitialCredits, c1, "system", 0, NoVal))
                    ELSE txs
          /\ totals' = [totals EXCEPT ![u] =
                          BumpTotals([purchased |-> 0, consumed |-> 0], InitialCredits)]
          /\ IF op = "register"
             THEN Respond(w, OkRes(w, "registered", NoOid, 0))
             ELSE /\ pc' = [pc EXCEPT ![w] = AfterRegister(op)]
                  /\ loc' = [loc EXCEPT ![w].cache = totals'[u]]
                  /\ UNCHANGED <<res, okRes>>
     ELSE /\ UNCHANGED <<users, balance, txs, totals>>
          /\ IF raced
             THEN Respond(w, FailRes(w, "user_exists"))
             ELSE IF op = "register"
             THEN Respond(w, OkRes(w, "registered", NoOid, 0))
             ELSE /\ pc' = [pc EXCEPT ![w] = AfterRegister(op)]
                  /\ UNCHANGED <<loc, res, okRes>>
  /\ UNCHANGED <<now, purchases, nextPid, vouchers, prov, ops>>

---------------------------------------------------------------------------
\* UserService.update_user_balance (the mutation gate)

NextVersionSame(v) == v
\* update_user_balance: new_version = current_version + 1
NextVersion(v) == v + 1

LastAttemptEarly(attempt) == attempt >= max_retries - 2
LastAttemptLate(attempt) == attempt = max_retries
\* for attempt in range(max_retries) ... if attempt == max_retries - 1: raise
LastAttempt(attempt) == attempt = max_retries - 1

\* one pass of the loop up to the UPDATE: read the row, compute, check
GateRead(w) ==
  /\ pc[w] = "gate_read"
  /\ LET u == loc[w].user
         b == balance[u]
     IN
     IF b = NoRow
     THEN Respond(w, FailRes(w, "no_balance"))
     ELSE IF Insufficient(b.credits, loc[w].delta)
     THEN Respond(w, FailRes(w, "insufficient"))
     ELSE /\ pc' = [pc EXCEPT ![w] = "gate_update"]
          /\ loc' = [loc EXCEPT ![w].rc = b.credits, ![w].rv = b.version]
          /\ UNCHANGED <<res, okRes>>
  /\ UNCHANGED <<now, users, totals, balance, txs, purchases, nextPid, vouchers,
                 prov, ops>>

\* the conditional UPDATE and what follows it: on one row the transaction
\* row, the totals and the commit (which also commits what the caller had
\* flushed); on zero rows the rollback (which also discards what the caller
\* had flushed) and the retry or the final error
GateUpdate(w) ==
  /\ pc[w] = "gate_update"
  /\ LET l  == loc[w]
         u  == l.user
         nc == NewCredits(l.rc, l.delta)
         base == IF l.cache # NoTotals THEN l.cache ELSE totals[u]
     IN
     IF VersionMatches(balance[u], l.rv)
     THEN /\ balance' = [balance EXCEPT ![u] = [credits |-> nc, version |-> NextVersion(l.rv)]]
          /\ txs' = Append(txs, [TxRow(u, TxType(l.op), l.delta, nc, RefType(l.op), l.rid, l.key)
                                    EXCEPT !.description = l.desc])
          /\ totals' = IF u \in users
                       THEN [totals EXCEPT ![u] = BumpTotals(base, l.delta)]
                       ELSE totals
          /\ purchases' = IF l.pend # NoPurchase THEN purchases \cup {l.pend} ELSE purchases
          /\ IF l.op = "redeem"
             THEN /\ pc' = [pc EXCEPT ![w] = "r_record"]
                  /\ loc' = [loc EXCEPT ![w].rc = nc]
                  /\ UNCHANGED <<res, okRes>>
             ELSE IF l.op = "verify"
             THEN Respond(w, OkRes(w, "awarded", l.oid, l.delta))
             ELSE Respond(w, OkRes(w, "applied", NoOid, l.delta))
     ELSE /\ UNCHANGED <<balance, txs, totals, purchases>>
          /\ IF LastAttempt(l.attempt)
             THEN Respond(w, FailRes(w, "conflict"))
             ELSE /\ pc' = [pc EXCEPT ![w] = "gate_read"]
                  /\ loc' = [loc EXCEPT ![w].attempt = @ + 1,
                                        ![w].pend = NoPurchase,
                                        ![w].cache = NoTotals]
                  /\ UNCHANGED <<res, okRes>>
  /\ UNCHANGED <<now, users, nextPid, vouchers, prov, ops>>

---------------------------------------------------------------------------
\* POST /consume (api/users.py consume_credits)

ConsumeStart(w, u, a) ==
  /\ Begin(w)
  /\ LET l == [IdleLoc EXCEPT !.op = "consume", !.user = u, !.key = u,
                              !.delta = -a, !.cache = totals[u]] IN
     IF u \notin users
     THEN /\ res' = [res EXCEPT ![w] = [NoRes EXCEPT !.op = "consume", !.key = u, !.why = "not_found"]]
          /\ UNCHANGED <<pc, loc>>
     ELSE /\ pc' = [pc EXCEPT ![w] = "gate_read"]
          /\ loc' = [loc EXCEPT ![w] = l]
          /\ res' = [res EXCEPT ![w] = NoRes]
  /\ UNCHANGED <<now, users, totals, balance, txs, purchases, nextPid, vouchers,
                 prov, okRes>>

\* the reason the administrator gives for an adjustment
AdjustReason == "refund"

\* the admin_id argument both routes hand to admin_adjust_balance: None
AdminIdArg(route) == NoVal

\* admin_adjust_balance: "Admin adjustment: {description}", followed by
\* " (by admin ID: {admin_id})" only if an admin_id was given
AdminDesc(reason, admin_id) ==
  [reason |-> reason, by |-> IF admin_id # NoVal THEN admin_id ELSE NoVal]

\* the two admin routes: api/users.py admin_adjust_balance (by user id, no
\* lookup) and api/admin.py adjust_user_credits (lookup by installation id)
AdjustStart(w, u, d, route) ==
  /\ Begin(w)
  /\ LET l == [IdleLoc EXCEPT !.op = "adjust", !.user = u, !.key = u, !.delta = d,
                              !.desc = AdminDesc(AdjustReason, AdminIdArg(route)),
                              !.cache = IF route = "admin" THEN totals[u] ELSE NoTotals] IN
     IF route = "admin" /\ u \notin users
     THEN /\ res' = [res EXCEPT ![w] = [NoRes EXCEPT !.op = "adjust", !.key = u, !.why = "not_found"]]
          /\ UNCHANGED <<pc, loc>>
     ELSE /\ pc' = [pc EXCEPT ![w] = "gate_read"]
          /\ loc' = [loc EXCEPT ![w] = l]
          /\ res' = [res EXCEPT ![w] = NoRes]
  /\ UNCHANGED <<now, users, totals, balance, txs, purchases, nextPid, vouchers,
                 prov, okRes>>

---------------------------------------------------------------------------
\* POST /redeem (api/payments.py redeem_code)

\* the user lookup of the route
RedeemStart(w, u, c) ==
  /\ Begin(w)
  /\ pc' = [pc EXCEPT ![w] = IF u \in users THEN "r_read" ELSE "register"]
  /\ loc' = [loc EXCEPT ![w] = [IdleLoc EXCEPT !.op = "redeem", !.user = u, !.key = c,
                                               !.delta = VoucherCredits, !.rid = CodeId(c)]]
  /\ res' = [res EXCEPT ![w] = NoRes]
  /\ UNCHANGED <<now, users, totals, balance, txs, purchases, nextPid, vouchers,
                 prov, okRes>>

\* today_start = utcnow().replace(hour=0, minute=0, second=0, microsecond=0)
TodayStartTomorrow(t) == ((t \div DayLen) + 1) * DayLen
TodayStart(t) == (t \div DayLen) * DayLen

\* codes the user has used today, as the count query sees them
TodayUsage(u) ==
  Cardinality({c \in DOMAIN vouchers :
                 /\ vouchers[c].used_by = u
                 /\ vouchers[c].used_at >= TodayStart(now)
                 /\ vouchers[c].status = "used"})

ExpiredNever(v, t) == FALSE
\* redeem_code.expires_at and redeem_code.expires_at < datetime.utcnow()
Expired(v, t) == v.expires_at # NoTime /\ v.expires_at < t

RejectReasonThrottleFirst(c, u, t) ==
  IF c \notin DOMAIN vouchers THEN "not_found"
  ELSE IF TodayUsage(u) >= REDEEM_CODE_DAILY_LIMIT_PER_DEVICE THEN "throttle"
  ELSE IF vouchers[c].status = "used" THEN "used"
  ELSE IF vouchers[c].status = "disabled" THEN "disabled"
  ELSE IF Expired(vouchers[c], t) THEN "expired"
  ELSE NoVal
\* the checks of validate_and_use_code, in the order the code makes them
RejectReason(c, u, t) ==
  IF c \notin DOMAIN vouchers THEN "not_found"
  ELSE IF vouchers[c].status = "used" THEN "used"
  ELSE IF vouchers[c].status = "disabled" THEN "disabled"
  ELSE IF Expired(vouchers[c], t) THEN "expired"
  ELSE IF TodayUsage(u) >= REDEEM_CODE_DAILY_LIMIT_PER_DEVICE THEN "throttle"
  ELSE NoVal

\* validate_and_use_code up to its first write: load the code row and make
\* the checks (the row and the count are read together); an expired code
\* goes on to the write of its new status
RedeemValidate(w) ==
  /\ pc[w] = "r_read"
  /\ LET c == loc[w].key
         why == RejectReason(c, loc[w].user, now)
     IN
     IF why = "expired"
     THEN /\ pc' = [pc EXCEPT ![w] = "r_expire"]
          /\ loc' = [loc EXCEPT ![w].rs = vouchers[c].status]
          /\ UNCHANGED <<res, okRes>>
     ELSE IF why # NoVal
     THEN Respond(w, FailRes(w, why))
     ELSE /\ pc' = [pc EXCEPT ![w] = "r_claim"]
          /\ loc' = [loc EXCEPT ![w].rs = vouchers[c].status]
          /\ UNCHANGED <<res, okRes>>
  /\ UNCHANGED <<now, users, totals, balance, txs, purchases, nextPid, vouchers,
                 prov, ops>>

\* redeem_code.status = "expired"; db.commit(); raise: the flush writes the
\* status where it differs from the one that was loaded (UPDATE ... WHERE id)
RedeemExpire(w) ==
  /\ pc[w] = "r_expire"
  /\ vouchers' = IF loc[w].rs # "expired"
                 THEN [vouchers EXCEPT ![loc[w].key].status = "expired"]
                 ELSE vouchers
  /\ Respond(w, FailRes(w, "expired"))
  /\ UNCHANGED <<now, users, totals, balance, txs, purchases, nextPid, prov, ops>>

ClaimedRowKeepFirst(old, u) ==
  IF old.status = "used" THEN old
  ELSE [old EXCEPT !.status = "used", !.used_by = u, !.used_at = now]
\* the row the flush writes: UPDATE redeem_codes SET status, used_by, used_at
\* WHERE id = ? (no condition on the status that was read)
ClaimedRow(old, u) == [old EXCEPT !.status = "used", !.used_by = u, !.used_at = now]

\* validate_and_use_code: mark the loaded row used and commit
RedeemClaim(w) ==
  /\ pc[w] = "r_claim"
  /\ LET c == loc[w].key
         u == loc[w].user
     IN
     /\ vouchers' = [vouchers EXCEPT ![c] = ClaimedRow(vouchers[c], u)]
     /\ pc' = [pc EXCEPT ![w] = "gate_read"]
     /\ loc' = [loc EXCEPT ![w].cache = totals[u]]
  /\ UNCHANGED <<now, users, totals, balance, txs, purchases, nextPid, prov,
                 res, okRes, ops>>

\* after the gate: the tracking Purchase row of the redeem, and the response
RedeemRecord(w) ==
  /\ pc[w] = "r_record"
  /\ LET l == loc[w] IN
     /\ purchases' = purchases \cup
          {[id |-> nextPid,
            oid |-> [kind |-> "redeem", key |-> l.key, salt |-> ToString(nextPid)],
            user |-> l.user, credits |-> l.delta, status |-> "completed",
            token |-> NoVal, platform |-> "redeem_code"]}
     /\ nextPid' = nextPid + 1
     /\ Respond(w, OkRes(w, "redeemed", NoOid, l.delta))
  /\ UNCHANGED <<now, users, totals, balance, txs, vouchers, prov, ops>>

---------------------------------------------------------------------------
\* POST /google/verify (GooglePlayService.verify_purchase)

ProviderAcceptsAlways(t, reach) == TRUE
\* _verify_purchase_token: purchaseState == 0 and consumptionState != 1,
\* None on any provider error
ProviderAccepts(t, reach) == reach /\ prov[t] = "purchased"

\* the provider call comes first (seq, had, reach: history fields, what
\* the call found when it began)
VerifyStart(w, u, t, reach) ==
  /\ Begin(w)
  /\ LET had == \E x \in purchases : x.token = t /\ x.status = "completed"
         l == [IdleLoc EXCEPT !.op = "verify", !.user = u, !.key = t,
                              !.product = ProductOf(t), !.seq = (okRes[t] # NoRes),
                              !.had = had, !.reach = reach] IN
     IF ProviderAccepts(t, reach)
     THEN /\ pc' = [pc EXCEPT ![w] = "v_check"]
          /\ loc' = [loc EXCEPT ![w] = l]
          /\ res' = [res EXCEPT ![w] = NoRes]
     ELSE /\ res' = [res EXCEPT ![w] =
                       [NoRes EXCEPT !.op = "verify", !.key = t, !.why = "invalid_token",
                                     !.seq = (okRes[t] # NoRes), !.had = had,
                                     !.reach = reach]]
          /\ UNCHANGED <<pc, loc>>
  /\ UNCHANGED <<now, users, totals, balance, txs, purchases, nextPid, vouchers,
                 prov, okRes>>

\* "Check if purchase is already processed" (Purchase by purchase_token),
\* then the lookup of get_or_create_user; the two SELECTs are taken as one
\* read (a user registered between them is found by RegisterUser instead)
VerifyCheck(w) ==
  /\ pc[w] = "v_check"
  /\ LET found == {x \in purchases : x.token = loc[w].key} IN
     IF found # {}
     THEN \E x \in found : Respond(w, OkRes(w, "already_processed", x.oid, x.credits))
     ELSE /\ pc' = [pc EXCEPT ![w] = IF loc[w].user \in users THEN "v_insert" ELSE "register"]
          /\ UNCHANGED <<loc, res, okRes>>
  /\ UNCHANGED <<now, users, totals, balance, txs, purchases, nextPid, vouchers,
                 prov, ops>>

\* db.add(purchase); db.flush(): the INSERT, checked against the unique
\* index on order_id; it waits while another session holds the same order_id
\* uncommitted
VerifyInsert(w) ==
  /\ pc[w] = "v_insert"
  /\ LET l   == loc[w]
         oid == ResolveOrderId(w, l.key)
         cr  == CreditsForProduct(l.product)
         row == [id |-> nextPid, oid |-> oid, user |-> l.user, credits |-> cr,
                 status |-> "completed", token |-> l.key, platform |-> "google_play"]
     IN
     /\ ~PendingElsewhere(w, oid)
     /\ IF \E x \in purchases : x.oid = oid
        THEN /\ Respond(w, FailRes(w, "integrity"))
             /\ UNCHANGED nextPid
        ELSE /\ nextPid' = nextPid + 1
             /\ pc' = [pc EXCEPT ![w] = "gate_read"]
             /\ loc' = [loc EXCEPT ![w].pend = row, ![w].oid = oid, ![w].delta = cr,
                                   ![w].rid = nextPid,
                                   ![w].cache = IF l.cache # NoTotals THEN l.cache
                                                ELSE totals[l.user]]
             /\ UNCHANGED <<res, okRes>>
  /\ UNCHANGED <<now, users, totals, balance, txs, purchases, vouchers, prov,
                 ops>>

---------------------------------------------------------------------------
\* POST /google/consume (GooglePlayService.consume_purchase)

\* purchases().products().consume(): the provider marks the receipt consumed
ConsumePurchaseStart(w, t, reach) ==
  /\ Begin(w)
  /\ IF reach
     THEN /\ prov' = [prov EXCEPT ![t] = "consumed"]
          /\ pc' = [pc EXCEPT ![w] = "cp_mark"]
          /\ loc' = [loc EXCEPT ![w] = [IdleLoc EXCEPT !.op = "consume_purchase", !.key = t]]
          /\ res' = [res EXCEPT ![w] = NoRes]
     ELSE /\ res' = [res EXCEPT ![w] =
                       [NoRes EXCEPT !.op = "consume_purchase", !.key = t, !.why = "provider"]]
          /\ UNCHANGED <<prov, pc, loc>>
  /\ UNCHANGED <<now, users, totals, balance, txs, purchases, nextPid, vouchers,
                 okRes>>

\* the local Purchase row of the token, if any, becomes 'consumed'
ConsumePurchaseMark(w) ==
  /\ pc[w] = "cp_mark"
  /\ LET found == {x \in purchases : x.token = loc[w].key} IN
     IF found = {}
     THEN /\ UNCHANGED purchases
          /\ Respond(w, OkRes(w, "consumed", NoOid, 0))
     ELSE \E x \in found :
            /\ purchases' = (purchases \ {x}) \cup {[x EXCEPT !.status = "consumed"]}
            /\ Respond(w, OkRes(w, "consumed", NoOid, 0))
  /\ UNCHANGED <<now, users, totals, balance, txs, nextPid, vouchers, prov, ops>>

---------------------------------------------------------------------------
\* Administration of redeem codes

\* valid_statuses of update_redeem_code
ValidStatuses == {"active", "disabled", "expired"}

\* PUT /admin/redeem-codes/{id} (api/admin.py update_redeem_code) up to its
\* write: load the row, check the requested status, refuse a used code
UpdateRedeemCodeStart(w, c, s) ==
  /\ Begin(w)
  /\ LET why == IF c \notin DOMAIN vouchers THEN "not_found"
                ELSE IF s \notin ValidStatuses THEN "bad_status"
                ELSE IF vouchers[c].status = "used" THEN "used"
                ELSE NoVal
     IN
     IF why # NoVal
     THEN /\ res' = [res EXCEPT ![w] = [NoRes EXCEPT !.op = "update_code", !.key = c,
                                                     !.why = why]]
          /\ UNCHANGED <<pc, loc>>
     ELSE /\ pc' = [pc EXCEPT ![w] = "a_write"]
          /\ loc' = [loc EXCEPT ![w] = [IdleLoc EXCEPT !.op = "update_code", !.key = c,
                                                       !.want = s,
                                                       !.rs = vouchers[c].status]]
          /\ res' = [res EXCEPT ![w] = NoRes]
  /\ UNCHANGED <<now, users, totals, balance, txs, purchases, nextPid, vouchers,
                 prov, okRes>>

\* the row the flush of update_redeem_code writes: the status where it
\* differs from the loaded one, and expires_at = utcnow() for 'expired'
\* (UPDATE ... WHERE id = ?, no condition on the status that was read)
UpdatedRow(old, rs, s) ==
  [old EXCEPT !.status = IF s # rs THEN s ELSE @,
              !.expires_at = IF s = "expired" THEN now ELSE @]

\* redeem_code.status = request.status; db.commit().  The commit of a row
\* stamped with utcnow() is seen by later statements at a later instant, so
\* the clock moves on with it.
UpdateRedeemCodeWrite(w) ==
  /\ pc[w] = "a_write"
  /\ LET c == loc[w].key
         s == loc[w].want
     IN
     /\ s = "expired" => now < MaxTime
     /\ vouchers' = [vouchers EXCEPT ![c] = UpdatedRow(vouchers[c], loc[w].rs, s)]
     /\ now' = IF s = "expired" THEN now + 1 ELSE now
     /\ Respond(w, OkRes(w, s, NoOid, 0))
  /\ UNCHANGED <<users, totals, balance, txs, purchases, nextPid, prov, ops>>

\* disable_codes: one UPDATE ... WHERE id IN (...) AND status IN
\* ('active', 'expired'), and the commit
DisableCodes(w, ids) ==
  /\ Begin(w)
  /\ vouchers' = [c \in DOMAIN vouchers |->
                    IF c \in ids /\ vouchers[c].status \in {"active", "expired"}
                    THEN [vouchers[c] EXCEPT !.status = "disabled"]
                    ELSE vouchers[c]]
  /\ res' = [res EXCEPT ![w] = [NoRes EXCEPT !.op = "disable_codes", !.ok = TRUE]]
  /\ UNCHANGED <<now, users, totals, balance, txs, purchases, nextPid, prov,
                 pc, loc, okRes>>

\* cleanup_expired_codes: one UPDATE ... WHERE status = 'active' AND
\* expires_at IS NOT NULL AND expires_at < now, and the commit
CleanupExpiredCodes(w) ==
  /\ Begin(w)
  /\ vouchers' = [c \in DOMAIN vouchers |->
                    IF vouchers[c].status = "active" /\ Expired(vouchers[c], now)
                    THEN [vouchers[c] EXCEPT !.status = "expired"]
                    ELSE vouchers[c]]
  /\ res' = [res EXCEPT ![w] = [NoRes EXCEPT !.op = "cleanup_codes", !.ok = TRUE]]
  /\ UNCHANGED <<now, users, totals, balance, txs, purchases, nextPid, prov,
                 pc, loc, okRes>>

\* time passes
Tick ==
  /\ now < MaxTime
  /\ now' = now + 1
  /\ UNCHANGED <<users, totals, balance, txs, purchases, nextPid, vouchers,
                 prov, pc, loc, res, okRes, ops>>

---------------------------------------------------------------------------
\* All operations on users, balances and receipts, at most MaxOps requests;
\* receipts of the token for which the provider reports an orderId.  The
\* clock stands still, so the code does not reach its expiry.
MainTokens == {"t1"}

Next ==
  \/ \E w \in Workers, u \in Users : ops < MaxOps /\ RegisterStart(w, u)
  \/ \E w \in Workers, raced \in BOOLEAN : RegisterUser(w, raced)
  \/ \E w \in Workers, u \in Users, a \in ConsumeAmounts : ops < MaxOps /\ ConsumeStart(w, u, a)
  \/ \E w \in Workers, u \in Users, d \in AdjustDeltas, r \in {"users", "admin"} :
       ops < MaxOps /\ AdjustStart(w, u, d, r)
  \/ \E w \in Workers : GateRead(w)
  \/ \E w \in Workers : GateUpdate(w)
  \/ \E w \in Workers, u \in Users, c \in Codes : ops < MaxOps /\ RedeemStart(w, u, c)
  \/ \E w \in Workers : RedeemValidate(w)
  \/ \E w \in Workers : RedeemClaim(w)
  \/ \E w \in Workers : RedeemRecord(w)
  \/ \E w \in Workers, u \in Users, t \in MainTokens, reach \in BOOLEAN :
       ops < MaxOps /\ VerifyStart(w, u, t, reach)
  \/ \E w \in Workers : VerifyCheck(w)
  \/ \E w \in Workers : VerifyInsert(w)
  \/ \E w \in Workers, t \in MainTokens, reach \in BOOLEAN :
       ops < MaxOps /\ ConsumePurchaseStart(w, t, reach)
  \/ \E w \in Workers : ConsumePurchaseMark(w)

Spec == Init /\ [][Next]_vars

---------------------------------------------------------------------------
\* The purchase pipeline alone: verifications of both receipts (with and
\* without a provider orderId), provider-side consumption, and admin
\* adjustments as the concurrent writer of the same balance

NextPurchase ==
  \/ \E w \in Workers, u \in Users, t \in Tokens, reach \in BOOLEAN :
       ops < MaxOps /\ VerifyStart(w, u, t, reach)
  \/ \E w \in Workers : VerifyCheck(w)
  \/ \E w \in Workers, raced \in BOOLEAN : RegisterUser(w, raced)
  \/ \E w \in Workers : VerifyInsert(w)
  \/ \E w \in Workers : GateRead(w)
  \/ \E w \in Workers : GateUpdate(w)
  \/ \E w \in Workers, t \in Tokens, reach \in BOOLEAN :
       ops < MaxOps /\ ConsumePurchaseStart(w, t, reach)
  \/ \E w \in Workers : ConsumePurchaseMark(w)
  \/ \E w \in Workers, u \in Users, d \in AdjustDeltas :
       ops < MaxOps /\ AdjustStart(w, u, d, "users")

SpecPurchase == Init /\ [][NextPurchase]_vars

---------------------------------------------------------------------------
\* The redeem route with admin adjustments as the concurrent writer of the
\* same balance, at most MaxRedeemOps requests

NextRedeem ==
  \/ \E w \in Workers, u \in Users, c \in Codes : ops < MaxRedeemOps /\ RedeemStart(w, u, c)
  \/ \E w \in Workers, raced \in BOOLEAN : RegisterUser(w, raced)
  \/ \E w \in Workers : RedeemValidate(w)
  \/ \E w \in Workers : RedeemClaim(w)
  \/ \E w \in Workers : GateRead(w)
  \/ \E w \in Workers : GateUpdate(w)
  \/ \E w \in Workers : RedeemRecord(w)
  \/ \E w \in Workers, u \in Users, d \in AdjustDeltas :
       ops < MaxRedeemOps /\ AdjustStart(w, u, d, "users")

SpecRedeem == Init /\ [][NextRedeem]_vars

---------------------------------------------------------------------------
\* Two concurrent admin adjustments of different deltas on one registered
\* user: every worker issues one call, both for the same user

\* the store after every user has registered (signup bonus granted)
InitAdj ==
  /\ users = Users
  /\ totals = [u \in Users |-> BumpTotals([purchased |-> 0, consumed |-> 0], InitialCredits)]
  /\ balance = [u \in Users |-> [credits |-> NewCredits(0, InitialCredits), version |-> 2]]
  /\ txs = <<TxRow("u1", "earn", InitialCredits, NewCredits(0, InitialCredits), "system", 0, NoVal),
             TxRow("u2", "earn", InitialCredits, NewCredits(0, InitialCredits), "system", 0, NoVal)>>
  /\ purchases = {}
  /\ nextPid = 1
  /\ vouchers = [c \in Codes |-> NewCode(MaxTime + 1)]
  /\ prov = [t \in Tokens |-> "purchased"]
  /\ pc = [w \in Workers |-> "idle"]
  /\ loc = [w \in Workers |-> IdleLoc]
  /\ res = [w \in Workers |-> NoRes]
  /\ okRes = [t \in Tokens |-> NoRes]
  /\ ops = 0
  /\ now = 0

\* what worker x is adjusting or has adjusted
AdjOf(x) == IF pc[x] # "idle" THEN <<loc[x].user, loc[x].delta>>
            ELSE IF res[x] # NoRes THEN <<res[x].key, res[x].cr>>
            ELSE <<NoVal, 0>>

AdjustPair(w, u, d, r) ==
  /\ res[w] = NoRes
  /\ \A x \in Workers \ {w} : AdjOf(x)[1] \in {NoVal, u} /\ AdjOf(x)[2] # d
  /\ AdjustStart(w, u, d, r)

NextAdj ==
  \/ \E w \in Workers, u \in Users, d \in AdjustDeltas, r \in {"users", "admin"} :
       AdjustPair(w, u, d, r)
  \/ \E w \in Workers : GateRead(w)
  \/ \E w \in Workers : GateUpdate(w)

SpecAdj == InitAdj /\ [][NextAdj]_vars

---------------------------------------------------------------------------
\* The gate under load: consumptions and admin adjustments (both routes) on
\* registered users, at most MaxGateOps requests

NextGate ==
  \/ \E w \in Workers, u \in Users, a \in ConsumeAmounts :
       ops < MaxGateOps /\ ConsumeStart(w, u, a)
  \/ \E w \in Workers, u \in Users, d \in AdjustDeltas, r \in {"users", "admin"} :
       ops < MaxGateOps /\ AdjustStart(w, u, d, r)
  \/ \E w \in Workers : GateRead(w)
  \/ \E w \in Workers : GateUpdate(w)

SpecGate == InitAdj /\ [][NextGate]_vars

---------------------------------------------------------------------------
\* The life of redeem codes: redeems, the admin status update, bulk disable,
\* expiry cleanup and the clock, on registered users, at most MaxVoucherOps
\* requests.  The code expires after instant 1.

VCodes == {"c1"}

\* the store after every user has registered and an admin has created the
\* codes
InitVoucher ==
  /\ users = Users
  /\ totals = [u \in Users |-> BumpTotals([purchased |-> 0, consumed |-> 0], InitialCredits)]
  /\ balance = [u \in Users |-> [credits |-> NewCredits(0, InitialCredits), version |-> 2]]
  /\ txs = <<TxRow("u1", "earn", InitialCredits, NewCredits(0, InitialCredits), "system", 0, NoVal),
             TxRow("u2", "earn", InitialCredits, NewCredits(0, InitialCredits), "system", 0, NoVal)>>
  /\ purchases = {}
  /\ nextPid = 1
  /\ vouchers = [c \in VCodes |-> NewCode(1)]
  /\ prov = [t \in Tokens |-> "purchased"]
  /\ pc = [w \in Workers |-> "idle"]
  /\ loc = [w \in Workers |-> IdleLoc]
  /\ res = [w \in Workers |-> NoRes]
  /\ okRes = [t \in Tokens |-> NoRes]
  /\ ops = 0
  /\ now = 0

NextVoucher ==
  \/ \E w \in Workers, u \in Users, c \in VCodes :
       ops < MaxVoucherOps /\ RedeemStart(w, u, c)
  \/ \E w \in Workers : RedeemValidate(w)
  \/ \E w \in Workers : RedeemExpire(w)
  \/ \E w \in Workers : RedeemClaim(w)
  \/ \E w \in Workers : GateRead(w)
  \/ \E w \in Workers : GateUpdate(w)
  \/ \E w \in Workers : RedeemRecord(w)
  \/ \E w \in Workers, c \in VCodes, s \in ValidStatuses \cup {"used"} :
       ops < MaxVoucherOps /\ UpdateRedeemCodeStart(w, c, s)
  \/ \E w \in Workers : UpdateRedeemCodeWrite(w)
  \/ \E w \in Workers, ids \in SUBSET VCodes :
       ops < MaxVoucherOps /\ ids # {} /\ DisableCodes(w, ids)
  \/ \E w \in Workers : ops < MaxVoucherOps /\ CleanupExpiredCodes(w)
  \/ Tick

SpecVoucher == InitVoucher /\ [][NextVoucher]_vars

---------------------------------------------------------------------------
\* The daily limit: u1 has used four codes today; c5 (expires after instant
\* 0) and c6 (never expires) are active, c7 is disabled, cX does not exist.
\* Redeems and the clock, at most MaxThrottleOps requests.

UsedToday == <<"c1", "c2", "c3", "c4">>
TCodes == {"c1", "c2", "c3", "c4", "c5", "c6", "c7"}
RedeemInputs == {"c1", "c5", "c6", "c7", "cX"}

\* the ledger rows of the redeems of UsedToday by u1, after the signup rows
RedeemedRow(i) ==
  TxRow("u1", "earn", VoucherCredits,
        NewCredits(0, InitialCredits) + i * VoucherCredits,
        "redeem_code", CodeId(UsedToday[i]), UsedToday[i])

InitThrottle ==
  /\ users = Users
  /\ totals = [u \in Users |->
                 [purchased |-> InitialCredits
                                + (IF u = "u1" THEN Len(UsedToday) * VoucherCredits ELSE 0),
                  consumed |-> 0]]
  /\ balance = [u \in Users |->
                  IF u = "u1"
                  THEN [credits |-> NewCredits(0, InitialCredits) + Len(UsedToday) * VoucherCredits,
                        version |-> 2 + Len(UsedToday)]
                  ELSE [credits |-> NewCredits(0, InitialCredits), version |-> 2]]
  /\ txs = <<TxRow("u1", "earn", InitialCredits, NewCredits(0, InitialCredits), "system", 0, NoVal),
             TxRow("u2", "earn", InitialCredits, NewCredits(0, InitialCredits), "system", 0, NoVal)>>
           \o [i \in 1..Len(UsedToday) |-> RedeemedRow(i)]
  /\ purchases = {[id |-> i,
                   oid |-> [kind |-> "redeem", key |-> UsedToday[i], salt |-> ToString(i)],
                   user |-> "u1", credits |-> VoucherCredits, status |-> "completed",
                   token |-> NoVal, platform |-> "redeem_code"] : i \in 1..Len(UsedToday)}
  /\ nextPid = Len(UsedToday) + 1
  /\ vouchers = [c \in TCodes |->
                   CASE c = "c5" -> NewCode(0)
                     [] c = "c6" -> NewCode(NoTime)
                     [] c = "c7" -> [NewCode(0) EXCEPT !.status = "disabled"]
                     [] OTHER    -> [NewCode(0) EXCEPT !.status = "used", !.used_by = "u1",
                                                       !.used_at = 0]]
  /\ prov = [t \in Tokens |-> "purchased"]
  /\ pc = [w \in Workers |-> "idle"]
  /\ loc = [w \in Workers |-> IdleLoc]
  /\ res = [w \in Workers |-> NoRes]
  /\ okRes = [t \in Tokens |-> NoRes]
  /\ ops = 0
  /\ now = 0

NextThrottle ==
  \/ \E w \in Workers, u \in Users, c \in RedeemInputs :
       ops < MaxThrottleOps /\ RedeemStart(w, u, c)
  \/ \E w \in Workers : RedeemValidate(w)
  \/ \E w \in Workers : RedeemExpire(w)
  \/ \E w \in Workers : RedeemClaim(w)
  \/ \E w \in Workers : GateRead(w)
  \/ \E w \in Workers : GateUpdate(w)
  \/ \E w \in Workers : RedeemRecord(w)
  \/ Tick

SpecThrottle == InitThrottle /\ [][NextThrottle]_vars

---------------------------------------------------------------------------
\* User management: api/auth.py send_verification_email and api/admin.py
\* delete_user

\* POST /auth/email/send-verification without a user_id, u being the
\* installation id generate_anonymous_user_id returns: where no user has the
\* e-mail address, a User row is added and committed, and nothing else
SendVerificationEmail(w, u) ==
  /\ Begin(w)
  /\ u \notin users
  /\ users' = users \cup {u}
  /\ totals' = [totals EXCEPT ![u] = [purchased |-> 0, consumed |-> 0]]
  /\ res' = [res EXCEPT ![w] = [NoRes EXCEPT !.op = "send_email", !.key = u, !.ok = TRUE]]
  /\ UNCHANGED <<now, balance, txs, purchases, nextPid, vouchers, prov, pc, loc,
                 okRes>>

\* DELETE /admin/users/{installation_id}: the balance row, the transaction
\* rows and the user row are deleted in one transaction (the purchases stay)
DeleteUser(w, u) ==
  /\ Begin(w)
  /\ IF u \notin users
     THEN /\ res' = [res EXCEPT ![w] = [NoRes EXCEPT !.op = "delete_user", !.key = u, !.why = "not_found"]]
          /\ UNCHANGED <<users, totals, balance, txs>>
     ELSE /\ balance' = [balance EXCEPT ![u] = NoRow]
          /\ txs' = SelectSeq(txs, LAMBDA t : t.user # u)
          /\ users' = users \ {u}
          /\ totals' = [totals EXCEPT ![u] = [purchased |-> 0, consumed |-> 0]]
          /\ res' = [res EXCEPT ![w] = [NoRes EXCEPT !.op = "delete_user", !.key = u, !.ok = TRUE]]
  /\ UNCHANGED <<now, purchases, nextPid, vouchers, prov, pc, loc, okRes>>

\* Accounts of one installation: registration, e-mail signup, deletion, and
\* consumptions and admin adjustments through the gate, at most MaxAccountOps
\* requests
AccountUsers == {"u1"}

NextAccount ==
  \/ \E w \in Workers, u \in AccountUsers : ops < MaxAccountOps /\ RegisterStart(w, u)
  \/ \E w \in Workers, raced \in BOOLEAN : RegisterUser(w, raced)
  \/ \E w \in Workers, u \in AccountUsers : ops < MaxAccountOps /\ SendVerificationEmail(w, u)
  \/ \E w \in Workers, u \in AccountUsers : ops < MaxAccountOps /\ DeleteUser(w, u)
  \/ \E w \in Workers, u \in AccountUsers, a \in ConsumeAmounts :
       ops < MaxAccountOps /\ ConsumeStart(w, u, a)
  \/ \E w \in Workers, u \in AccountUsers, d \in AdjustDeltas, r \in {"users", "admin"} :
       ops < MaxAccountOps /\ AdjustStart(w, u, d, r)
  \/ \E w \in Workers : GateRead(w)
  \/ \E w \in Workers : GateUpdate(w)

SpecAccount == Init /\ [][NextAccount]_vars

---------------------------------------------------------------------------
\* A burst of gate calls on one user: every worker of the pool issues at most
\* one request, a consumption or an admin adjustment, and the requests run
\* side by side
BurstWorkers == {"w1", "w2", "w3", "w4"}
BurstDeltas == {5}

InitBurst ==
  /\ users = Users
  /\ totals = [u \in Users |-> BumpTotals([purchased |-> 0, consumed |-> 0], InitialCredits)]
  /\ balance = [u \in Users |-> [credits |-> NewCredits(0, InitialCredits), version |-> 2]]
  /\ txs = <<TxRow("u1", "earn", InitialCredits, NewCredits(0, InitialCredits), "system", 0, NoVal),
             TxRow("u2", "earn", InitialCredits, NewCredits(0, InitialCredits), "system", 0, NoVal)>>
  /\ purchases = {}
  /\ nextPid = 1
  /\ vouchers = [c \in Codes |-> NewCode(MaxTime + 1)]
  /\ prov = [t \in Tokens |-> "purchased"]
  /\ pc = [w \in BurstWorkers |-> "idle"]
  /\ loc = [w \in BurstWorkers |-> IdleLoc]
  /\ res = [w \in BurstWorkers |-> NoRes]
  /\ okRes = [t \in Tokens |-> NoRes]
  /\ ops = 0
  /\ now = 0

\* the workers of the pool are interchangeable: the next request goes to the
\* first worker that has not served one yet
BurstRank(w) == CASE w = "w1" -> 1 [] w = "w2" -> 2 [] w = "w3" -> 3 [] OTHER -> 4

Served(w) == pc[w] # "idle" \/ res[w] # NoRes

NextFree(w) ==
  /\ ~Served(w)
  /\ \A x \in BurstWorkers : BurstRank(x) < BurstRank(w) => Served(x)

NextBurst ==
  \/ \E w \in BurstWorkers, a \in ConsumeAmounts :
       NextFree(w) /\ ConsumeStart(w, "u1", a)
  \/ \E w \in BurstWorkers, d \in BurstDeltas :
       NextFree(w) /\ AdjustStart(w, "u1", d, "users")
  \/ \E w \in BurstWorkers : GateRead(w)
  \/ \E w \in BurstWorkers : GateUpdate(w)

SpecBurst == InitBurst /\ [][NextBurst]_vars

\* a request handler, once started, runs to its response
SpecBurstFair ==
  /\ SpecBurst
  /\ \A w \in BurstWorkers : WF_vars(GateRead(w)) /\ WF_vars(GateUpdate(w))

---------------------------------------------------------------------------
\* Properties

Quiescent == \A w \in Workers : pc[w] = "idle"

\* the committed earn rows a purchase of receipt t caused
PurchaseTxs(t) ==
  SelectSeq(txs, LAMBDA x : x.reference_type = "purchase" /\ x.key = t)

\* the committed earn rows a redeem of code c caused
RedeemTxs(c) ==
  SelectSeq(txs, LAMBDA x : x.reference_type = "redeem_code" /\ x.key = c)

AdminTxs(u) ==
  SelectSeq(txs, LAMBDA x : x.type = "admin_adjust" /\ x.user = u)

PurchaseRows(t) == {x \in purchases : x.token = t}

\* C1: every receipt token is credited exactly once: at most one
\* purchase-origin earn transaction is ever committed for it, and exactly one
\* once a verify call for it has reported success.
C1_CreditedExactlyOnce ==
  \A t \in Tokens :
    /\ Len(PurchaseTxs(t)) <= 1
    /\ (okRes[t] # NoRes => Len(PurchaseTxs(t)) = 1)

\* C2: ledger consistency: in every reachable state each user's balance
\* equals the sum of the credits deltas of that user's transactions.
C2_LedgerConsistency ==
  \A u \in Users : balance[u].credits = SumCredits(TxOf(u))

\* C2 witness: a user with three ledger rows, one committed by a gate call
\* that had lost a version race first
C2_Witness ==
  \E w \in Workers :
    /\ res[w].ok /\ res[w].tries >= 2
    /\ \E u \in Users : Len(TxOf(u)) >= 3 /\ balance[u].credits = SumCredits(TxOf(u))

\* C3: non-negativity: no balance is ever below zero, whatever consumption
\* attempts and negative adjustments race on it.
C3_NonNegative ==
  \A u \in Users : balance[u].credits >= 0

\* C3 witness: a consumption rejected for insufficient balance on its second
\* pass, after a concurrent writer had taken the credits it first saw
C3_Witness ==
  \E w \in Workers :
    /\ res[w].op = "consume" /\ res[w].why = "insufficient" /\ res[w].tries >= 2
    /\ balance[res[w].key].credits >= 0
    /\ balance[res[w].key].credits < 7

\* C4: at-most-once voucher claim: of the redeem calls for one code exactly
\* one succeeds and is credited; the code's credits are granted once in total.
C4_AtMostOnceClaim ==
  /\ \A c \in Codes : Len(RedeemTxs(c)) <= 1
  /\ \A w \in Workers, x \in Workers :
       (w # x /\ res[w].op = "redeem" /\ res[x].op = "redeem" /\ res[w].key = res[x].key)
         => ~(res[w].ok /\ res[x].ok)

\* C5: a voucher is never left used without its credit: in every quiescent
\* state each used voucher has a committed earn transaction for its used_by
\* user.
C5_UsedImpliesCredited ==
  Quiescent =>
    \A c \in Codes :
      vouchers[c].status = "used" =>
        \E i \in DOMAIN txs :
          /\ txs[i].reference_type = "redeem_code" /\ txs[i].key = c
          /\ txs[i].type = "earn" /\ txs[i].user = vouchers[c].used_by

\* C6: lost-update resistance: two concurrent admin adjustments of +5 and -3
\* on a balance of 10 both commit, leave 12 and two admin transactions, in
\* every interleaving.
C6_LostUpdateResistance ==
  (\A w \in Workers : pc[w] = "idle" /\ res[w] # NoRes) =>
    /\ \A w \in Workers : res[w].ok
    /\ \E u \in Users : balance[u].credits = 12 /\ Len(AdminTxs(u)) = 2

\* C6 witness: both adjustments answered, one of them after losing the
\* version race once
C6_Witness ==
  /\ \A w \in Workers : pc[w] = "idle" /\ res[w].op = "adjust" /\ res[w].ok
  /\ \E w \in Workers : res[w].tries = 2
  /\ \E u \in Users : balance[u].credits = 12

\* C7: idempotent purchase: a verify call made after an earlier call for the
\* same token reported success reports success with the same order_id and
\* credits, and one Purchase row and one transaction exist for the token.
C7_IdempotentPurchase ==
  \A w \in Workers :
    (res[w].op = "verify" /\ res[w].seq) =>
      /\ res[w].ok
      /\ res[w].oid = okRes[res[w].key].oid
      /\ res[w].cr = okRes[res[w].key].cr
      /\ Cardinality(PurchaseRows(res[w].key)) = 1
      /\ Len(PurchaseTxs(res[w].key)) = 1

\* C8: a receipt token never has more than one completed Purchase row.
C8_OneCompletedPerToken ==
  \A t \in Tokens :
    Cardinality({x \in PurchaseRows(t) : x.status = "completed"}) <= 1

\* C9: a verify call whose insert fails on uniqueness is answered as already
\* processed: a success carrying the winner's order_id and credits.
C9_RaceLoserSucceeds ==
  \A w \in Workers :
    (res[w].op = "verify" /\ res[w].why = "integrity") =>
      /\ res[w].ok
      /\ \E x \in PurchaseRows(res[w].key) : res[w].oid = x.oid /\ res[w].cr = x.credits

\* C10: a purchase verification commits fully or not at all: a
\* purchase-origin earn transaction exists if and only if the Purchase row it
\* references is persisted.
C10_PurchaseAtomic ==
  /\ \A i \in DOMAIN txs :
       txs[i].reference_type = "purchase" =>
         \E x \in purchases : x.id = txs[i].reference_id /\ x.token = txs[i].key
  /\ \A x \in purchases :
       x.platform = "google_play" =>
         \E i \in DOMAIN txs :
           txs[i].reference_type = "purchase" /\ txs[i].reference_id = x.id

\* C11: a gate call with delta d whose conditional UPDATE takes effect on
\* the stored balance (c, v) leaves the balance at (c+d, v+1), appends exactly
\* one transaction with credits d and balance_after c+d, and adds d to the
\* user's running totals, all in that one step (one commit).
C11_GateSuccessEffect ==
  [][\A w \in Workers :
       (/\ pc[w] = "gate_update" /\ pc'[w] # "gate_update"
        /\ balance[loc[w].user].version = loc[w].rv)
       => LET u == loc[w].user
              c == balance[u].credits
              v == balance[u].version
              d == loc[w].delta
          IN /\ balance'[u] = [credits |-> c + d, version |-> v + 1]
             /\ Len(txs') = Len(txs) + 1
             /\ SubSeq(txs', 1, Len(txs)) = txs
             /\ txs'[Len(txs')].user = u
             /\ txs'[Len(txs')].credits = d
             /\ txs'[Len(txs')].balance_after = c + d
             /\ totals'[u].purchased = totals[u].purchased + (IF d > 0 THEN d ELSE 0)
             /\ totals'[u].consumed = totals[u].consumed + (IF d < 0 THEN -d ELSE 0)]_vars

\* C12: a gate call that fails leaves everything unchanged: no step of a
\* call up to and including its failure changes any balance, transaction or
\* running total; a deduction that would take the stored credits below zero
\* fails as insufficient, and a conditional UPDATE that finds another version
\* than the one read writes nothing (and fails as conflict when it ends the
\* call).
C12_GateFailureFrame ==
  [][\A w \in Workers :
       LET u == loc[w].user
           d == loc[w].delta
           frame == balance' = balance /\ txs' = txs /\ totals' = totals
       IN
       /\ (pc[w] = "gate_read" /\ pc'[w] # "gate_read") => frame
       /\ (/\ pc[w] = "gate_read" /\ pc'[w] # "gate_read"
           /\ balance[u] # NoRow /\ d < 0 /\ balance[u].credits + d < 0)
          => (pc'[w] = "idle" /\ ~res'[w].ok /\ res'[w].why = "insufficient")
       /\ (/\ pc[w] = "gate_update" /\ pc'[w] # "gate_update"
           /\ balance[u].version # loc[w].rv)
          => /\ frame
             /\ pc'[w] = "idle" => (~res'[w].ok /\ res'[w].why = "conflict")]_vars

\* C12 witness: a call that ended in a conflict after max_retries passes,
\* while the three calls that beat it are the only ones in the ledger
C12_Witness ==
  \E w \in Workers :
    /\ res[w].why = "conflict" /\ res[w].tries = max_retries
    /\ Len(TxOf(res[w].key)) = 1 + max_retries
    /\ balance[res[w].key].version = 2 + max_retries

\* C13: idempotency fast path: a verify call that begins when a completed
\* Purchase is recorded for its receipt token is answered as a success
\* carrying the recorded order_id and credits, whatever the provider answers
\* for the token at that moment.
C13_IdempotencyFastPath ==
  \A w \in Workers :
    (res[w].op = "verify" /\ res[w].had) =>
      /\ res[w].ok
      /\ res[w].why = "already_processed"
      /\ \E x \in PurchaseRows(res[w].key) : res[w].oid = x.oid /\ res[w].cr = x.credits

\* C14: the provider's decision comes strictly before any local write of a
\* verify call: a call for a receipt the provider does not hold as purchased,
\* or made while the provider is unreachable, ends at once as a failure and
\* no User, Balance, Purchase or Transaction row is created or changed; a
\* call goes on to its local steps only on an accepted receipt, having
\* written nothing.
C14_ProviderDecisionFirst ==
  [][\A w \in Workers :
       LET local == UNCHANGED <<users, balance, totals, purchases, nextPid, txs>> IN
       /\ (/\ pc[w] = "idle" /\ ops' = ops + 1
           /\ \/ loc'[w].op = "verify"
              \/ res'[w] # res[w] /\ res'[w].op = "verify"
           /\ LET t == IF loc'[w].op = "verify" THEN loc'[w].key ELSE res'[w].key
                  r == IF loc'[w].op = "verify" THEN loc'[w].reach ELSE res'[w].reach
              IN prov[t] # "purchased" \/ ~r)
          => (pc'[w] = "idle" /\ ~res'[w].ok /\ local)
       /\ (loc[w].op # "verify" /\ loc'[w].op = "verify")
          => (loc'[w].reach /\ prov[loc'[w].key] = "purchased" /\ local)]_vars

\* C14 witness: a verify call rejected for a receipt the provider holds as
\* consumed, with no local row of any kind
C14_Witness ==
  \E w \in Workers :
    /\ res[w].op = "verify" /\ res[w].why = "invalid_token" /\ res[w].reach
    /\ prov[res[w].key] = "consumed"
    /\ users = {} /\ purchases = {} /\ txs = <<>>
    /\ \A u \in Users : balance[u] = NoRow

\* C15: the provider is told to mark a receipt consumed only after the local
\* commit: at every step that marks a receipt consumed at the provider, a
\* completed Purchase for its token is already committed.
C15_ConsumedAfterCommit ==
  [][\A t \in Tokens :
       (prov[t] # "consumed" /\ prov'[t] = "consumed")
         => \E x \in purchases : x.token = t /\ x.status = "completed"]_vars

\* C16: daily throttle: when the user already has K codes claimed within
\* the current calendar day (K the configured daily limit), the validation of
\* that user's redeem of an active, unexpired code fails as throttled, credits
\* nothing and leaves every code as it is (the code stays active and
\* claimable).
C16_DailyThrottle ==
  [][\A w \in Workers :
       LET c == loc[w].key
           u == loc[w].user
           claimedToday == {k \in DOMAIN vouchers :
                              /\ vouchers[k].status = "used" /\ vouchers[k].used_by = u
                              /\ vouchers[k].used_at \div DayLen = now \div DayLen}
       IN
       (/\ pc[w] = "r_read" /\ pc'[w] # "r_read"
        /\ c \in DOMAIN vouchers
        /\ vouchers[c].status = "active"
        /\ ~(vouchers[c].expires_at # NoTime /\ vouchers[c].expires_at < now)
        /\ Cardinality(claimedToday) >= REDEEM_CODE_DAILY_LIMIT_PER_DEVICE)
       => /\ pc'[w] = "idle" /\ ~res'[w].ok /\ res'[w].why = "throttle"
          /\ UNCHANGED <<vouchers, balance, txs, totals, purchases>>]_vars

\* C16 witness: a redeem was throttled and the same code has since been
\* claimed by the other user
C16_Witness ==
  \E w \in Workers :
    /\ res[w].op = "redeem" /\ res[w].why = "throttle"
    /\ vouchers[res[w].key].status = "used" /\ vouchers[res[w].key].used_by = "u2"
    /\ TodayUsage("u1") >= REDEEM_CODE_DAILY_LIMIT_PER_DEVICE

\* C17: used is terminal and immutable: once a code's status is used, no
\* later step of any operation changes its status, used_by or used_at.
C17_UsedImmutable ==
  [][\A c \in DOMAIN vouchers :
       vouchers[c].status = "used"
         => /\ vouchers'[c].status = "used"
            /\ vouchers'[c].used_by = vouchers[c].used_by
            /\ vouchers'[c].used_at = vouchers[c].used_at]_vars

\* C18: expired and disabled are terminal: no step changes the status of a
\* disabled code, and an expired code can only stay expired or become
\* disabled; neither returns to active nor becomes used.
C18_ExpiredDisabledTerminal ==
  [][\A c \in DOMAIN vouchers :
       /\ vouchers[c].status = "disabled" => vouchers'[c].status = "disabled"
       /\ vouchers[c].status = "expired"
            => vouchers'[c].status \in {"expired", "disabled"}]_vars

\* C19: the claim evaluates its rejection reasons in a fixed priority:
\* unknown code, then used, then disabled, then expiry passed, and only then
\* the daily cap; a call that passes them all goes on to claim the code.
C19_RejectionPriority ==
  [][\A w \in Workers :
       LET c == loc[w].key
           u == loc[w].user
           claimedToday == {k \in DOMAIN vouchers :
                              /\ vouchers[k].status = "used" /\ vouchers[k].used_by = u
                              /\ vouchers[k].used_at \div DayLen = now \div DayLen}
           expected ==
             IF c \notin DOMAIN vouchers THEN "not_found"
             ELSE IF vouchers[c].status = "used" THEN "used"
             ELSE IF vouchers[c].status = "disabled" THEN "disabled"
             ELSE IF vouchers[c].expires_at # NoTime /\ vouchers[c].expires_at < now
             THEN "expired"
             ELSE IF Cardinality(claimedToday) >= REDEEM_CODE_DAILY_LIMIT_PER_DEVICE
             THEN "throttle"
             ELSE "claim"
       IN
       /\ (pc[w] = "r_read" /\ pc'[w] # "r_read")
          => CASE expected = "claim"   -> pc'[w] = "r_claim"
               [] expected = "expired" -> pc'[w] = "r_expire"
               [] OTHER -> pc'[w] = "idle" /\ ~res'[w].ok /\ res'[w].why = expected
       /\ (pc[w] = "r_expire" /\ pc'[w] # "r_expire")
          => (pc'[w] = "idle" /\ ~res'[w].ok /\ res'[w].why = "expired")]_vars

\* C19 witness: a redeem found expired for a user who is over the daily cap,
\* and a redeem of a code past its expiry answered as used or disabled
C19_Witness ==
  /\ \E w \in Workers :
       /\ pc[w] = "r_expire"
       /\ TodayUsage(loc[w].user) >= REDEEM_CODE_DAILY_LIMIT_PER_DEVICE
  /\ \E x \in Workers :
       /\ res[x].op = "redeem" /\ res[x].why \in {"used", "disabled"}
       /\ Expired(vouchers[res[x].key], now)

\* C20: lazy expiry: a redeem that validates an active code whose expires_at
\* has passed writes the status expired (the write persists although the call
\* fails), fails as expired and changes no balance, transaction or total; a
\* passed expiry stays passed, and no redeem validated after it goes on to
\* claim the code.
C20_LazyExpiry ==
  [][/\ \A w \in Workers :
          LET c == loc[w].key
              frame == balance' = balance /\ txs' = txs /\ totals' = totals
              passed == /\ c \in DOMAIN vouchers
                        /\ vouchers[c].expires_at # NoTime
                        /\ vouchers[c].expires_at < now
          IN
          /\ (pc[w] = "r_read" /\ pc'[w] # "r_read" /\ passed)
             => /\ frame /\ vouchers' = vouchers
                /\ pc'[w] # "r_claim"
                /\ vouchers[c].status = "active" => pc'[w] = "r_expire"
          /\ (pc[w] = "r_expire" /\ pc'[w] # "r_expire" /\ loc[w].rs = "active")
             => /\ vouchers'[c].status = "expired"
                /\ pc'[w] = "idle" /\ ~res'[w].ok /\ res'[w].why = "expired"
                /\ frame
     /\ \A c \in DOMAIN vouchers :
          (vouchers[c].expires_at # NoTime /\ vouchers[c].expires_at < now)
            => (vouchers'[c].expires_at # NoTime /\ vouchers'[c].expires_at < now')]_vars

\* C20 witness: two redeems of the same code, one after the other, both
\* failed as expired; the code is expired and the ledger holds the signup
\* rows only
C20_Witness ==
  \E w \in Workers, x \in Workers :
    /\ w # x
    /\ res[w].op = "redeem" /\ res[w].why = "expired"
    /\ res[x].op = "redeem" /\ res[x].why = "expired" /\ res[x].key = res[w].key
    /\ vouchers[res[w].key].status = "expired"
    /\ Len(txs) = Cardinality(Users)
    /\ Quiescent

\* C21: the ledger is append-only: every step keeps each committed
\* transaction row in place and unchanged, and rows are only added at the end
\* of the ledger.
C21_LedgerAppendOnly ==
  [][/\ Len(txs') >= Len(txs)
     /\ \A i \in 1..Len(txs) : txs'[i] = txs[i]]_vars

\* C22: a balance record is created with zero credits, version 1 and no
\* transaction of its user, and the first grant of c credits (a redeemed code
\* or a verified purchase) to a user who has only registered leaves the
\* balance at c and the user's ledger with exactly that one earn row of +c
\* and balance_after c.
C22_FreshAccount ==
  [][\A u \in Users :
       /\ (balance[u] = NoRow /\ balance'[u] # NoRow)
            => /\ balance'[u] = [credits |-> 0, version |-> 1]
               /\ TxOf(u)' = <<>>
       /\ ( /\ Len(txs') = Len(txs) + 1
            /\ txs'[Len(txs')].user = u
            /\ txs'[Len(txs')].reference_type \in {"purchase", "redeem_code"}
            /\ \A i \in 1..Len(txs) :
                 txs[i].user = u => txs[i].reference_type = "system" )
            => LET t == txs'[Len(txs')] IN
               /\ TxOf(u)' = <<t>>
               /\ t.type = "earn"
               /\ t.balance_after = t.credits
               /\ balance'[u].credits = t.credits]_vars

C24_AdminAdjustRecorded ==
  /\ \A i \in DOMAIN txs :
       txs[i].type = "admin_adjust"
         => /\ txs[i].reference_type = "admin"
            /\ txs[i].description.reason = AdjustReason
            /\ txs[i].description.by # NoVal
  /\ Quiescent
       => Cardinality({w \in Workers : res[w].op = "adjust" /\ res[w].ok})
            = Len(AdminTxs("u1")) + Len(AdminTxs("u2"))

\* C25: balance_after is a running total: taking a user's transactions in
\* commit order, the first has balance_after equal to its own delta, each
\* later one has balance_after equal to its predecessor's balance_after plus
\* its own delta, and the last one's balance_after is the user's current
\* balance.
C25_RunningTotal ==
  \A u \in Users :
    LET s == TxOf(u) IN
    s # <<>> =>
      /\ s[1].balance_after = s[1].credits
      /\ \A i \in 2..Len(s) : s[i].balance_after = s[i-1].balance_after + s[i].credits
      /\ s[Len(s)].balance_after = balance[u].credits

\* C25 witness: a user whose ledger holds a grant and a deduction after the
\* signup bonus, the later of them committed by a call that had lost a race
C25_Witness ==
  \E u \in Users, w \in Workers :
    LET s == TxOf(u) IN
    /\ Len(s) >= 3
    /\ \E i \in 2..Len(s) : s[i].credits > 0
    /\ \E i \in 2..Len(s) : s[i].credits < 0
    /\ pc[w] = "idle" /\ res[w].ok /\ res[w].tries >= 2 /\ res[w].op \in {"consume", "adjust"}
    /\ res[w].key = u
    /\ s[Len(s)].credits = res[w].cr

\* C26: the version counts the gate's commits: a step that appends a
\* transaction of a user raises that user's version by exactly 1, a step that
\* appends none leaves the version of every existing balance record alone,
\* and in every state the version of a balance record is 1 plus the number of
\* its user's transactions.
C26_VersionMonotonic ==
  /\ [](\A u \in Users :
          balance[u] # NoRow => balance[u].version = 1 + Len(TxOf(u)))
  /\ [][\A u \in Users :
          (balance[u] # NoRow /\ balance'[u] # NoRow)
            => IF Len(TxOf(u)') = Len(TxOf(u)) + 1
               THEN balance'[u].version = balance[u].version + 1
               ELSE /\ TxOf(u)' = TxOf(u)
                    /\ balance'[u].version = balance[u].version]_vars

\* C26 witness: a balance record at version 4 or more next to calls that
\* failed, one for insufficient balance or after a lost race
C26_Witness ==
  \E u \in Users, w \in Workers :
    /\ balance[u].version >= 4
    /\ pc[w] = "idle" /\ res[w].key = u /\ ~res[w].ok
    /\ res[w].why \in {"insufficient", "conflict"}

\* C27: balance records and users are one to one: in every state a user row
\* exists exactly if its balance record exists, whichever operation created
\* the user, so no gate call on an existing user ends for lack of a balance
\* record.
C27_BalancePerUser ==
  /\ [](\A u \in Users : u \in users <=> balance[u] # NoRow)
  /\ [][\A w \in DOMAIN pc :
          (pc[w] = "gate_read" /\ pc'[w] = "idle" /\ res'[w].why = "no_balance")
            => loc[w].user \notin users]_vars

\* C28: the running totals match the ledger: in every state a user's
\* total_credits_purchased is the sum of the positive deltas of the user's
\* transactions and total_credits_consumed the sum of the absolute values of
\* the negative ones, also when a request had read the user row before a
\* concurrent gate call committed.
C28_TotalsMatchLedger ==
  \A u \in users :
    /\ totals[u].purchased = SumCredits(SelectSeq(TxOf(u), LAMBDA t : t.credits > 0))
    /\ totals[u].consumed = -SumCredits(SelectSeq(TxOf(u), LAMBDA t : t.credits < 0))

\* C29: the daily cap holds under concurrency: in every state, for every
\* user and every calendar day, at most K codes (K the configured daily
\* limit) are used by that user with a claim time within that day.
C29_DailyCap ==
  \A u \in Users, day \in 0..(MaxTime \div DayLen) :
    Cardinality({c \in DOMAIN vouchers :
                   /\ vouchers[c].status = "used"
                   /\ vouchers[c].used_by = u
                   /\ vouchers[c].used_at # NoTime
                   /\ vouchers[c].used_at \div DayLen = day})
      <= REDEEM_CODE_DAILY_LIMIT_PER_DEVICE

====
